---- MODULE Spec2Model ----
(***************************************************************************)
(* Model of realtime-code-backend/server.js: the Socket.IO relay           *)
(* (join_document, leave_document, code_change, cursor_update, disconnect) *)
(* and the execution engine (run_code and the child-process callbacks).    *)
(***************************************************************************)
EXTENDS Integers, Sequences, FiniteSets, TLC

(***************************************************************************)
(* Bounds of the model.                                                    *)
(***************************************************************************)
\* a broadcast is handled only while the clients' streams hold at most this
\* many messages after it
MaxEmit == 2
\* number of environment failures (failed write, failed spawn, kill, failed unlink)
MaxFaults == 1
\* largest value Date.now() returns
MaxClock == 1

(***************************************************************************)
(* Input domains.                                                          *)
(***************************************************************************)
\* socket.id of each connection
Sessions == {"s1", "s2"}
\* documentId (projectId) values
Docs == {"d1", "d2"}
\* absent key of the documents Map / JavaScript undefined
Undefined == "undefined"

\* code_change payloads without documentId: {newContent, senderId, fileName}
CodeChangeData ==
  { [newContent |-> "p", senderId |-> "u1", fileName |-> "f1"],
    [newContent |-> "q", senderId |-> "u2", fileName |-> "f2"],
    [newContent |-> "",  senderId |-> "u2", fileName |-> "f1"] }

\* code_change payloads in which a field is absent
PartialData ==
  { [newContent |-> "p", senderId |-> Undefined, fileName |-> "f1"],
    [newContent |-> Undefined, senderId |-> "u1", fileName |-> "f1"],
    [newContent |-> "q", senderId |-> "u2", fileName |-> Undefined] }

\* cursor_update payloads without documentId
CursorData ==
  { [userId |-> "u1", position |-> "pos1", selection |-> "sel1", fileName |-> "f1"],
    [userId |-> "u2", position |-> "pos2", selection |-> "sel2", fileName |-> "f2"] }

\* the run_code requests, numbered in the order the server handles them
RunIds == {1, 2}
\* values of Date.now()
Times == 0 .. MaxClock
\* temp_script_${Date.now()}_${socket.id}.py
Paths == Times \X Sessions
\* no file at a path
NoFile == [content |-> Undefined, owner |-> 0]
\* a request that is not handled yet, or that created no run
NoRun == [phase |-> "none"]
\* what python3 is given when the script is not there
Missing == "missing"
\* no code_change handled yet for a document
NoChange == [newContent |-> Undefined, senderId |-> Undefined, fileName |-> Undefined]

VARIABLES
  connected,   \* sockets whose connection is open
  rooms,       \* Socket.IO adapter: documentId -> set of socket ids
  documents,   \* the documents Map: documentId -> content, or Undefined
  inbox,       \* per socket, the events the server emitted to it, in order
  lastChange,  \* history: the data of the last code_change handled per document
  cursorSent,  \* history: per socket, number of its cursor_update events relayed to a peer
  joins,       \* history: per observed (socket, document), the join_document events
               \* handled since the socket was last outside the room (2: two or more)
  serving,     \* the Node process is alive: no uncaught exception ended it
  clients,     \* per browser tab, the state of its EditorPage component
  outbox,      \* per socket, the events its client emitted that the server has not handled yet
  runs,        \* per request, the closure of its run_code handler while the run is in flight
  disk,        \* the scratch files in __dirname: path -> [content, owner], or NoFile
  now,         \* the last value Date.now() returned, counted from the first request
  requests,    \* number of run_code requests handled
  faults       \* number of environment failures so far

clientVars == <<clients, outbox>>
relayVars == <<connected, rooms, documents, inbox, lastChange, cursorSent, joins, serving,
               clients, outbox>>
runVars == <<runs, disk, now, requests, faults>>
vars == <<connected, rooms, documents, inbox, lastChange, cursorSent, joins,
          serving, clients, outbox, runs, disk, now, requests, faults>>

(***************************************************************************)
(* Socket.IO primitives used by the handlers.                              *)
(***************************************************************************)
RECURSIVE SumLen(_, _)
SumLen(f, S) ==
  IF S = {} THEN 0
  ELSE LET x == CHOOSE y \in S : TRUE IN Len(f[x]) + SumLen(f, S \ {x})

\* number of messages emitted so far
Emitted == SumLen(inbox, Sessions)

\* faulty variant: io.to(room), the sender included
BroadcastWrong(s, d) == rooms[d] \cap connected
\* faulty variant: socket.broadcast, every other socket whatever its rooms
BroadcastEveryone(s, d) == connected \ {s}
\* socket.to(room): every socket of the room except the sender
BroadcastTargets(s, d) == (rooms[d] \ {s}) \cap connected

\* faulty variant: the message overtakes the ones already emitted
BroadcastPrepend(s, d, msg) ==
  [t \in Sessions |-> IF t \in BroadcastTargets(s, d)
                        THEN <<msg>> \o inbox[t] ELSE inbox[t]]
\* socket.to(room).emit(msg): append msg to the stream of every target
Broadcast(s, d, msg) ==
  [t \in Sessions |-> IF t \in BroadcastTargets(s, d)
                        THEN Append(inbox[t], msg) ELSE inbox[t]]

CanEmit(n) == Emitted + n <= MaxEmit

(***************************************************************************)
(* Initial state: server started, no document, no room; the clients'       *)
(* connections are open (io.on('connection') has run for each).            *)
(***************************************************************************)
Init ==
  /\ connected = Sessions
  /\ rooms = [d \in Docs |-> {}]
  /\ documents = [d \in Docs |-> Undefined]
  /\ inbox = [s \in Sessions |-> <<>>]
  /\ lastChange = [d \in Docs |-> NoChange]
  /\ cursorSent = [s \in Sessions |-> 0]
  /\ joins = [p \in {} |-> 0]
  /\ serving = TRUE
  /\ clients = [c \in {} |-> 0]
  /\ outbox = [s \in Sessions |-> <<>>]
  /\ runs = [r \in RunIds |-> NoRun]
  /\ disk = [f \in Paths |-> NoFile]
  /\ now = 0
  /\ requests = 0
  /\ faults = 0

(***************************************************************************)
(* Relay handlers.                                                         *)
(***************************************************************************)
\* faulty variant: a second join_document for the same room undoes the first
join_documentToggle(s, d) ==
  /\ s \in connected
  /\ rooms' = [rooms EXCEPT ![d] = IF s \in @ THEN @ \ {s} ELSE @ \cup {s}]
  /\ joins' = [p \in DOMAIN joins |->
                IF p = <<s, d>> /\ joins[p] < 2 THEN joins[p] + 1 ELSE joins[p]]
  /\ UNCHANGED <<connected, documents, inbox, lastChange, cursorSent, runVars, serving>>
\* faulty variant: the joiner is sent the content the server holds for the room
join_documentSync(s, d) ==
  /\ s \in connected
  /\ rooms' = [rooms EXCEPT ![d] = @ \cup {s}]
  /\ joins' = [p \in DOMAIN joins |->
                IF p = <<s, d>> /\ joins[p] < 2 THEN joins[p] + 1 ELSE joins[p]]
  /\ inbox' = IF documents[d] # Undefined /\ CanEmit(1)
                THEN [inbox EXCEPT ![s] = Append(@, [event |-> "code_change", newContent |-> documents[d],
                                        senderId |-> lastChange[d].senderId,
                                        fileName |-> lastChange[d].fileName,
                                        from |-> s])]
                ELSE inbox
  /\ UNCHANGED <<connected, documents, lastChange, cursorSent, runVars, serving>>
\* socket.join(documentId): the adapter keeps a room as a Set of socket ids
join_document(s, d) ==
  /\ s \in connected
  /\ rooms' = [rooms EXCEPT ![d] = @ \cup {s}]
  /\ joins' = [p \in DOMAIN joins |->
                IF p = <<s, d>> /\ joins[p] < 2 THEN joins[p] + 1 ELSE joins[p]]
  /\ UNCHANGED <<connected, documents, inbox, lastChange, cursorSent, runVars, serving>>

\* faulty variant: the socket leaves every room it is in
leave_documentAll(s, d) ==
  /\ s \in connected
  /\ rooms' = [e \in Docs |-> rooms[e] \ {s}]
  /\ joins' = [p \in DOMAIN joins |-> IF p[1] = s THEN 0 ELSE joins[p]]
  /\ UNCHANGED <<connected, documents, inbox, lastChange, cursorSent, runVars, serving>>
\* socket.leave(documentId)
leave_document(s, d) ==
  /\ s \in connected
  /\ rooms' = [rooms EXCEPT ![d] = @ \ {s}]
  /\ joins' = [p \in DOMAIN joins |-> IF p = <<s, d>> THEN 0 ELSE joins[p]]
  /\ UNCHANGED <<connected, documents, inbox, lastChange, cursorSent, runVars, serving>>

\* the message code_change broadcasts; from (the sender's socket) is a history field
CodeChangeMsg(s, d, data) ==
  [event |-> "code_change", newContent |-> data.newContent,
   senderId |-> data.senderId, fileName |-> data.fileName,
   from |-> s]

\* faulty variant: the first content of a document is kept
SetDocumentOnce(d, newContent) ==
  IF documents[d] = Undefined THEN [documents EXCEPT ![d] = newContent] ELSE documents
\* documents.set(documentId, newContent)
SetDocument(d, newContent) == [documents EXCEPT ![d] = newContent]

\* senderId.substring(0, 4) and newContent.length in the handler's last
\* statement: a property of undefined is read
Throws(data) == data.senderId = Undefined \/ data.newContent = Undefined

\* faulty variant: the event of a socket that is not in the room is ignored
code_changeMembersOnly(s, d, data) ==
  /\ s \in connected
  /\ CanEmit(Cardinality(BroadcastTargets(s, d)))
  /\ documents' = IF s \in rooms[d] THEN SetDocument(d, data.newContent) ELSE documents
  /\ inbox' = IF s \in rooms[d] THEN Broadcast(s, d, CodeChangeMsg(s, d, data)) ELSE inbox
  /\ lastChange' = [lastChange EXCEPT ![d] = data]
  /\ UNCHANGED <<connected, rooms, cursorSent, joins, serving, runVars>>
\* socket.on('code_change'): the snapshot is set and the message emitted
\* before the log statement, which throws on a payload without senderId or
\* newContent; nothing catches it and the process ends, with the message
\* already written to the peers' connections or not
code_change(s, d, data) ==
  /\ s \in connected
  /\ CanEmit(Cardinality(BroadcastTargets(s, d)))
  /\ documents' = SetDocument(d, data.newContent)
  /\ lastChange' = [lastChange EXCEPT ![d] = data]
  /\ IF Throws(data)
       THEN /\ inbox' \in {inbox, Broadcast(s, d, CodeChangeMsg(s, d, data))}
            /\ serving' = FALSE
            /\ connected' = {}
            /\ rooms' = [e \in Docs |-> {}]
            /\ joins' = [p \in DOMAIN joins |-> 0]
            /\ UNCHANGED <<cursorSent, runVars>>
       ELSE /\ inbox' = Broadcast(s, d, CodeChangeMsg(s, d, data))
            /\ UNCHANGED <<connected, rooms, cursorSent, joins, serving, runVars>>

\* the message cursor_update broadcasts; from and seq (the number of the event
\* among the sender's relayed cursor events) are history fields
CursorMsg(s, d, data) ==
  [event |-> "cursor_update", userId |-> data.userId,
   position |-> data.position, selection |-> data.selection,
   fileName |-> data.fileName,
   from |-> s, seq |-> cursorSent[s] + 1]

\* faulty variant: the server keeps the last cursor position of a document
cursor_updateStores(s, d, data) ==
  /\ s \in connected
  /\ CanEmit(Cardinality(BroadcastTargets(s, d)))
  /\ inbox' = Broadcast(s, d, CursorMsg(s, d, data))
  /\ cursorSent' = [cursorSent EXCEPT ![s] =
                      IF BroadcastTargets(s, d) = {} THEN @ ELSE @ + 1]
  /\ documents' = [documents EXCEPT ![d] = data.position]
  /\ UNCHANGED <<connected, rooms, lastChange, joins, runVars, serving>>
\* socket.on('cursor_update')
cursor_update(s, d, data) ==
  /\ s \in connected
  /\ CanEmit(Cardinality(BroadcastTargets(s, d)))
  /\ inbox' = Broadcast(s, d, CursorMsg(s, d, data))
  /\ cursorSent' = [cursorSent EXCEPT ![s] =
                      IF BroadcastTargets(s, d) = {} THEN @ ELSE @ + 1]
  /\ UNCHANGED <<connected, rooms, documents, lastChange, joins, runVars, serving>>

\* faulty variant: the snapshot of a room the last member leaves is deleted
disconnectCleans(s) ==
  /\ s \in connected
  /\ connected' = connected \ {s}
  /\ rooms' = [d \in Docs |-> rooms[d] \ {s}]
  /\ joins' = [p \in DOMAIN joins |-> IF p[1] = s THEN 0 ELSE joins[p]]
  /\ documents' = [d \in Docs |-> IF rooms[d] = {s} THEN Undefined ELSE documents[d]]
  /\ UNCHANGED <<inbox, lastChange, cursorSent, runVars, serving, clientVars>>
\* faulty variant: the processes of the socket are killed with it, their
\* closures dropped
disconnectKills(s) ==
  /\ s \in connected
  /\ connected' = connected \ {s}
  /\ rooms' = [d \in Docs |-> rooms[d] \ {s}]
  /\ joins' = [p \in DOMAIN joins |-> IF p[1] = s THEN 0 ELSE joins[p]]
  /\ runs' = [r \in RunIds |->
                IF runs[r].phase \in {"spawned", "running"} /\ runs[r].socket = s
                  THEN [phase |-> "done", replies |-> 0, failed |-> FALSE]
                  ELSE runs[r]]
  /\ UNCHANGED <<documents, inbox, lastChange, cursorSent, disk, now, requests, faults, serving, clientVars>>
\* faulty variant: the rooms keep the socket of a closed connection
disconnectKeepsRooms(s) ==
  /\ s \in connected
  /\ connected' = connected \ {s}
  /\ UNCHANGED <<rooms, joins, documents, inbox, lastChange, cursorSent, runVars, serving, clientVars>>
\* the transport closes the connection: the adapter removes the socket from
\* every room, then the 'disconnect' handler logs
disconnect(s) ==
  /\ s \in connected
  /\ connected' = connected \ {s}
  /\ rooms' = [d \in Docs |-> rooms[d] \ {s}]
  /\ joins' = [p \in DOMAIN joins |-> IF p[1] = s THEN 0 ELSE joins[p]]
  /\ UNCHANGED <<documents, inbox, lastChange, cursorSent, runVars, serving, clientVars>>

(***************************************************************************)
(* Execution engine.                                                       *)
(***************************************************************************)
\* the interpreter: what python3 does with the script it opens.  "p" prints
\* two chunks and exits 0, "q" writes one chunk to stderr and exits 1, "pw"
\* prints two chunks, writes a warning to stderr and exits 0, "qe" prints one
\* chunk, writes two chunks to stderr and exits 1, a missing script makes
\* python3 report it on stderr and exit 2.
Script(prog) ==
  IF prog = "p" THEN [stdout |-> <<"x", "y">>, stderr |-> <<>>, code |-> "0"]
  ELSE IF prog = "q" THEN [stdout |-> <<>>, stderr |-> <<"e">>, code |-> "1"]
  ELSE IF prog = "pw" THEN [stdout |-> <<"x", "y">>, stderr |-> <<"w">>, code |-> "0"]
  ELSE IF prog = "qe" THEN [stdout |-> <<"z">>, stderr |-> <<"e", "f">>, code |-> "1"]
  ELSE [stdout |-> <<>>, stderr |-> <<"cantopen">>, code |-> "2"]

\* exit status handed to 'close': a number, or null when a signal ended the
\* process; a failed spawn hands over the negative errno
ExitCodes == {"0", "1", "2", "null", "-2"}

\* faulty variant: codeToExecute === ''
FalsyEmptyOnly(v) == v = ""
\* JavaScript !codeToExecute
Falsy(v) == v = Undefined \/ v = ""

\* faulty variant: io.emit, every connected socket
EmitTargetsAll(s) == connected
\* socket.emit(msg): the requesting socket only
EmitTargets(s) == {s} \cap connected

SocketEmit(s, msg) ==
  [t \in Sessions |-> IF t \in EmitTargets(s) THEN Append(inbox[t], msg) ELSE inbox[t]]

\* whether the handler has called fs.unlink(tempFileName) when it reaches its
\* socket.emit: 'close' calls it first, 'error' calls it after the emit, the
\* run_code handler itself (no code, catch block) never calls it
UnlinkCalled(via) == via = "close"

\* faulty variant: the catch block replies with error: false
CodeOutputCatchOk(r, s, d, via, code, output, error) ==
  [event |-> "code_output", output |-> output,
   error |-> IF via = "catch" THEN FALSE ELSE error,
   run |-> r, socket |-> s, doc |-> d, via |-> via, code |-> code,
   unlinkCalled |-> UnlinkCalled(via)]
\* the code_output message; run (the request), socket and doc (who asked, for
\* which document), via (the emitting handler), code (the exit status 'close'
\* was given, if any) and unlinkCalled are history fields
CodeOutput(r, s, d, via, code, output, error) ==
  [event |-> "code_output", output |-> output, error |-> error,
   run |-> r, socket |-> s, doc |-> d, via |-> via, code |-> code,
   unlinkCalled |-> UnlinkCalled(via)]

NoCodeMsg == [kind |-> "nocode"]
WriteErrorMsg == [kind |-> "servererror"]
SpawnErrorMsg == [kind |-> "spawnerror", reason |-> "-2"]
NonZeroMsg(code) == [kind |-> "nonzero", code |-> code]
Text(chunks) == [kind |-> "text", chunks |-> chunks]

\* const tempFileName = path.join(__dirname, `temp_script_${Date.now()}_${socket.id}.py`)
tempFileName(t, s) == <<t, s>>

\* faulty variant: a request waits while another run has its process
NewRunQueued(s, d, code, t, phase, unlinks) ==
  [socket |-> s, documentId |-> d, codeToExecute |-> code,
   tempFileName |-> tempFileName(t, s),
   phase |-> IF \E r \in RunIds : runs[r].phase \in {"spawned", "running"}
               THEN "queued" ELSE phase,
   executed |-> Undefined,
   output |-> <<>>, errorOutput |-> <<>>, replies |-> 0, unlinks |-> unlinks,
   failed |-> FALSE]
\* the closure of a run_code handler that reached spawn
NewRun(s, d, code, t, phase, unlinks) ==
  [socket |-> s, documentId |-> d, codeToExecute |-> code,
   tempFileName |-> tempFileName(t, s), phase |-> phase, executed |-> Undefined,
   output |-> <<>>, errorOutput |-> <<>>, replies |-> 0, unlinks |-> unlinks,
   failed |-> FALSE]

\* socket.on('run_code'): outcome is what the environment does to
\* writeFileSync and spawn
run_code(s, d, t, outcome) ==
  LET r == requests + 1
      codeToExecute == documents[d]
      file == [content |-> codeToExecute, owner |-> r]
  IN
  /\ s \in connected
  /\ requests + 1 \in RunIds
  /\ requests' = r
  /\ IF Falsy(codeToExecute)
       THEN /\ outcome = "ok"
            /\ t = now
            /\ inbox' = SocketEmit(s, CodeOutput(r, s, d, "nocode", Undefined, NoCodeMsg, FALSE))
            /\ UNCHANGED <<runs, disk, now, faults>>
       ELSE /\ t \in (IF requests = 0 THEN {now} ELSE {now, now + 1})
            /\ now' = t
            /\ outcome # "ok" => faults < MaxFaults
            /\ faults' = IF outcome = "ok" THEN faults ELSE faults + 1
            /\ CASE outcome = "writefail" ->
                      \* fs.writeFileSync throws: catch block
                      /\ inbox' = SocketEmit(s, CodeOutput(r, s, d, "catch", Undefined, WriteErrorMsg, TRUE))
                      /\ runs' = [runs EXCEPT ![r] = [phase |-> "aborted", replies |-> 1, failed |-> FALSE]]
                      /\ UNCHANGED disk
                 [] outcome = "spawnthrow" ->
                      \* spawn throws synchronously: catch block
                      /\ disk' = [disk EXCEPT ![tempFileName(t, s)] = file]
                      /\ inbox' = SocketEmit(s, CodeOutput(r, s, d, "catch", Undefined, WriteErrorMsg, TRUE))
                      /\ runs' = [runs EXCEPT ![r] = [phase |-> "aborted", replies |-> 1, failed |-> FALSE]]
                 [] outcome = "spawnfail" ->
                      \* spawn returns, the process could not start: 'error' is pending
                      /\ disk' = [disk EXCEPT ![tempFileName(t, s)] = file]
                      /\ runs' = [runs EXCEPT ![r] = NewRun(s, d, codeToExecute, t, "spawnfail", 0)]
                      /\ UNCHANGED inbox
                 [] outcome = "ok" ->
                      /\ disk' = [disk EXCEPT ![tempFileName(t, s)] = file]
                      /\ runs' = [runs EXCEPT ![r] = NewRun(s, d, codeToExecute, t, "spawned", 0)]
                      /\ UNCHANGED inbox
  /\ UNCHANGED <<connected, rooms, documents, lastChange, cursorSent, joins, serving>>

InFlight(r) == serving /\ runs[r].phase \in {"spawnfail", "spawned", "running", "errored", "closed"}

\* python3 opens the script named on its command line
python_open(r) ==
  /\ InFlight(r)
  /\ runs[r].phase = "spawned"
  /\ runs' = [runs EXCEPT ![r].phase = "running",
                          ![r].executed = IF disk[runs[r].tempFileName] = NoFile THEN Missing
                                          ELSE disk[runs[r].tempFileName].content]
  /\ UNCHANGED <<relayVars, disk, now, requests, faults>>

\* faulty variant: output = data + output
stdout_dataPrepend(r) ==
  /\ InFlight(r)
  /\ runs[r].phase = "running"
  /\ Len(runs[r].output) < Len(Script(runs[r].executed).stdout)
  /\ runs' = [runs EXCEPT ![r].output =
                <<[pid |-> r, data |-> Script(runs[r].executed).stdout[Len(@) + 1]]>> \o @]
  /\ UNCHANGED <<relayVars, disk, now, requests, faults>>
\* pythonProcess.stdout.on('data'): output += data
stdout_data(r) ==
  /\ InFlight(r)
  /\ runs[r].phase = "running"
  /\ Len(runs[r].output) < Len(Script(runs[r].executed).stdout)
  /\ runs' = [runs EXCEPT ![r].output =
                Append(@, [pid |-> r, data |-> Script(runs[r].executed).stdout[Len(@) + 1]])]
  /\ UNCHANGED <<relayVars, disk, now, requests, faults>>

\* pythonProcess.stderr.on('data'): errorOutput += data
stderr_data(r) ==
  /\ InFlight(r)
  /\ runs[r].phase = "running"
  /\ Len(runs[r].errorOutput) < Len(Script(runs[r].executed).stderr)
  /\ runs' = [runs EXCEPT ![r].errorOutput =
                Append(@, [pid |-> r, data |-> Script(runs[r].executed).stderr[Len(@) + 1]])]
  /\ UNCHANGED <<relayVars, disk, now, requests, faults>>

\* the process has written everything its script writes
Finished(r) ==
  /\ Len(runs[r].output) = Len(Script(runs[r].executed).stdout)
  /\ Len(runs[r].errorOutput) = Len(Script(runs[r].executed).stderr)

\* faulty variant: if (code) instead of if (code !== 0)
CloseReplyTruthy(r, code) ==
  IF code \notin {"0", "null"}
    THEN CodeOutput(r, runs[r].socket, runs[r].documentId, "close", code,
                    IF runs[r].errorOutput # <<>> THEN Text(runs[r].errorOutput)
                    ELSE NonZeroMsg(code), TRUE)
    ELSE CodeOutput(r, runs[r].socket, runs[r].documentId, "close", code,
                    Text(runs[r].output), FALSE)
\* faulty variant: output and errorOutput shared by the runs (module scope),
\* so a reply carries the buffers of the latest running request
CloseReplyShared(r, code) ==
  LET b == IF runs[requests].phase = "running" THEN requests ELSE r IN
  IF code # "0"
    THEN CodeOutput(r, runs[r].socket, runs[r].documentId, "close", code,
                    IF runs[b].errorOutput # <<>> THEN Text(runs[b].errorOutput)
                    ELSE NonZeroMsg(code), TRUE)
    ELSE CodeOutput(r, runs[r].socket, runs[r].documentId, "close", code,
                    Text(runs[b].output), FALSE)
\* the reply of the 'close' handler
CloseReply(r, code) ==
  IF code # "0"
    THEN CodeOutput(r, runs[r].socket, runs[r].documentId, "close", code,
                    IF runs[r].errorOutput # <<>> THEN Text(runs[r].errorOutput)
                    ELSE NonZeroMsg(code), TRUE)
    ELSE CodeOutput(r, runs[r].socket, runs[r].documentId, "close", code,
                    Text(runs[r].output), FALSE)

\* a run is over once 'close' has run and no unlink callback is pending:
\* nothing refers to the closure any more.  replies and failed are history.
Settle(run) ==
  IF run.phase = "closed" /\ run.unlinks = 0
    THEN [phase |-> "done", replies |-> run.replies, failed |-> run.failed]
    ELSE run

\* faulty variant: 'close' does not call fs.unlink
ClosedNoUnlink(run) ==
  [phase |-> "closed", tempFileName |-> run.tempFileName, replies |-> run.replies + 1,
   unlinks |-> run.unlinks, failed |-> run.failed]
\* what is left of the closure once 'close' has run: fs.unlink was called,
\* its callback names the path
Closed(run) ==
  [phase |-> "closed", tempFileName |-> run.tempFileName, replies |-> run.replies + 1,
   unlinks |-> run.unlinks + 1, failed |-> run.failed]

\* faulty variant: 'close' replies only when the process exited with 0
pythonProcess_closeSilent(r, code) ==
  /\ InFlight(r)
  /\ \/ runs[r].phase = "running" /\ Finished(r) /\ code = Script(runs[r].executed).code
        /\ UNCHANGED faults
     \/ runs[r].phase \in {"spawned", "running"} /\ code = "null"
        /\ faults < MaxFaults /\ faults' = faults + 1
     \/ runs[r].phase = "errored" /\ code = "-2"
        /\ UNCHANGED faults
  /\ inbox' = IF code = "0" THEN SocketEmit(runs[r].socket, CloseReply(r, code)) ELSE inbox
  /\ runs' = [runs EXCEPT ![r] = Settle(Closed(runs[r]))]
  /\ UNCHANGED <<connected, rooms, documents, lastChange, cursorSent, joins, disk, now, requests, serving, clientVars>>
\* pythonProcess.on('close'): the process ended by itself, was ended by a
\* signal, or never started (after 'error')
pythonProcess_close(r, code) ==
  /\ InFlight(r)
  /\ \/ runs[r].phase = "running" /\ Finished(r) /\ code = Script(runs[r].executed).code
        /\ UNCHANGED faults
     \/ runs[r].phase \in {"spawned", "running"} /\ code = "null"
        /\ faults < MaxFaults /\ faults' = faults + 1
     \/ runs[r].phase = "errored" /\ code = "-2"
        /\ UNCHANGED faults
  /\ inbox' = SocketEmit(runs[r].socket, CloseReply(r, code))
  /\ runs' = [runs EXCEPT ![r] = Settle(Closed(runs[r]))]
  /\ UNCHANGED <<connected, rooms, documents, lastChange, cursorSent, joins, disk, now, requests, serving, clientVars>>

\* faulty variant: the 'error' handler leaves the scratch file alone
pythonProcess_errorNoUnlink(r) ==
  /\ InFlight(r)
  /\ runs[r].phase = "spawnfail"
  /\ inbox' = SocketEmit(runs[r].socket, CodeOutput(r, runs[r].socket, runs[r].documentId, "error", Undefined, SpawnErrorMsg, TRUE))
  /\ runs' = [runs EXCEPT ![r].phase = "errored",
                          ![r].replies = @ + 1]
  /\ UNCHANGED <<connected, rooms, documents, lastChange, cursorSent, joins, disk, now, requests, faults, serving, clientVars>>
\* pythonProcess.on('error'): the interpreter could not be started
pythonProcess_error(r) ==
  /\ InFlight(r)
  /\ runs[r].phase = "spawnfail"
  /\ inbox' = SocketEmit(runs[r].socket, CodeOutput(r, runs[r].socket, runs[r].documentId, "error", Undefined, SpawnErrorMsg, TRUE))
  /\ runs' = [runs EXCEPT ![r].phase = "errored",
                          ![r].replies = @ + 1,
                          ![r].unlinks = @ + 1]
  /\ UNCHANGED <<connected, rooms, documents, lastChange, cursorSent, joins, disk, now, requests, faults, serving, clientVars>>

\* faulty variant: a failed unlink is reported to the clients
unlink_callbackSurfaces(r, ok) ==
  LET f == runs[r].tempFileName
      failed == runs[r].failed \/ (~ok /\ disk[f] # NoFile)
  IN
  /\ InFlight(r)
  /\ runs[r].phase \in {"errored", "closed"}
  /\ runs[r].unlinks > 0
  /\ IF ok
       THEN /\ disk[f] # NoFile
            /\ disk' = [disk EXCEPT ![f] = NoFile]
            /\ UNCHANGED <<faults, inbox>>
       ELSE /\ disk[f] # NoFile => faults < MaxFaults
            /\ faults' = IF disk[f] # NoFile THEN faults + 1 ELSE faults
            /\ inbox' = [t \in Sessions |->
                           Append(inbox[t], CodeOutput(r, t, Undefined, "unlink", Undefined,
                                                       WriteErrorMsg, TRUE))]
            /\ UNCHANGED disk
  /\ runs' = [runs EXCEPT ![r] = Settle([@ EXCEPT !.unlinks = @ - 1, !.failed = failed])]
  /\ UNCHANGED <<connected, rooms, documents, lastChange, cursorSent, joins, now, requests, serving, clientVars>>
\* the callback of fs.unlink(tempFileName, ...): ok says whether the file was
\* removed; a failure is logged: the file was not there any more, or the
\* file system refused (failed records the latter).
unlink_callback(r, ok) ==
  LET f == runs[r].tempFileName
      failed == runs[r].failed \/ (~ok /\ disk[f] # NoFile)
  IN
  /\ InFlight(r)
  /\ runs[r].phase \in {"errored", "closed"}
  /\ runs[r].unlinks > 0
  /\ IF ok
       THEN /\ disk[f] # NoFile
            /\ disk' = [disk EXCEPT ![f] = NoFile]
            /\ UNCHANGED faults
       ELSE /\ disk[f] # NoFile => faults < MaxFaults
            /\ faults' = IF disk[f] # NoFile THEN faults + 1 ELSE faults
            /\ UNCHANGED disk
  /\ runs' = [runs EXCEPT ![r] = Settle([@ EXCEPT !.unlinks = @ - 1, !.failed = failed])]
  /\ UNCHANGED <<relayVars, now, requests>>

\* The handlers of the five socket events say nothing of the clients: a step
\* that hands a handler an event of the bounded input sets leaves them alone.
JoinStep ==
  \E s \in Sessions, d \in Docs : join_document(s, d) /\ UNCHANGED clientVars
LeaveStep ==
  \E s \in Sessions, d \in Docs : leave_document(s, d) /\ UNCHANGED clientVars
CodeChangeStep ==
  \E s \in Sessions, d \in Docs, data \in CodeChangeData :
    code_change(s, d, data) /\ UNCHANGED clientVars
CursorStep ==
  \E s \in Sessions, d \in Docs, data \in CursorData :
    cursor_update(s, d, data) /\ UNCHANGED clientVars
DisconnectStep == \E s \in Sessions : disconnect(s)
PartialChangeStep ==
  \E s \in Sessions, d \in Docs, data \in PartialData :
    code_change(s, d, data) /\ UNCHANGED clientVars

\* what the environment does to fs.writeFileSync and spawn
Outcomes == {"ok", "writefail", "spawnthrow", "spawnfail"}

RunCodeStep ==
  \E s \in Sessions, d \in Docs, t \in Times, outcome \in Outcomes :
    run_code(s, d, t, outcome) /\ UNCHANGED clientVars
OpenStep == \E r \in RunIds : python_open(r)
StdoutStep == \E r \in RunIds : stdout_data(r)
StderrStep == \E r \in RunIds : stderr_data(r)
CloseStep == \E r \in RunIds, code \in ExitCodes : pythonProcess_close(r, code)
ErrorStep == \E r \in RunIds : pythonProcess_error(r)
UnlinkStep == \E r \in RunIds, ok \in BOOLEAN : unlink_callback(r, ok)

NextRelay ==
  \/ JoinStep
  \/ LeaveStep
  \/ CodeChangeStep
  \/ CursorStep
  \/ DisconnectStep

SpecRelay == Init /\ [][NextRelay]_vars

NextRun ==
  \/ CodeChangeStep
  \/ RunCodeStep
  \/ OpenStep
  \/ StdoutStep
  \/ StderrStep
  \/ CloseStep
  \/ ErrorStep
  \/ UnlinkStep

SpecRun == Init /\ [][NextRun]_vars

(***************************************************************************)
(* The execution engine with the sessions coming and going: both documents *)
(* have their snapshot (a code_change for each was handled before anybody  *)
(* joined).                                                                *)
(***************************************************************************)
InitExec ==
  /\ connected = Sessions
  /\ rooms = [d \in Docs |-> {}]
  /\ documents = [d \in Docs |-> IF d = "d1" THEN "p" ELSE "q"]
  /\ inbox = [s \in Sessions |-> <<>>]
  /\ lastChange = [d \in Docs |->
                     CHOOSE data \in CodeChangeData : data.newContent = documents[d]]
  /\ cursorSent = [s \in Sessions |-> 0]
  /\ joins = [p \in {} |-> 0]
  /\ serving = TRUE
  /\ clients = [c \in {} |-> 0]
  /\ outbox = [s \in Sessions |-> <<>>]
  /\ runs = [r \in RunIds |-> NoRun]
  /\ disk = [f \in Paths |-> NoFile]
  /\ now = 0
  /\ requests = 0
  /\ faults = 0

NextExec ==
  \/ JoinStep
  \/ LeaveStep
  \/ DisconnectStep
  \/ RunCodeStep
  \/ OpenStep
  \/ StdoutStep
  \/ StderrStep
  \/ CloseStep
  \/ ErrorStep
  \/ UnlinkStep

SpecExec == InitExec /\ [][NextExec]_vars

(***************************************************************************)
(* The relay with the join_document events of every (socket, document)     *)
(* observed.                                                               *)
(***************************************************************************)
InitJoins ==
  /\ connected = Sessions
  /\ rooms = [d \in Docs |-> {}]
  /\ documents = [d \in Docs |-> Undefined]
  /\ inbox = [s \in Sessions |-> <<>>]
  /\ lastChange = [d \in Docs |-> NoChange]
  /\ cursorSent = [s \in Sessions |-> 0]
  /\ joins = [p \in Sessions \X Docs |-> 0]
  /\ serving = TRUE
  /\ clients = [c \in {} |-> 0]
  /\ outbox = [s \in Sessions |-> <<>>]
  /\ runs = [r \in RunIds |-> NoRun]
  /\ disk = [f \in Paths |-> NoFile]
  /\ now = 0
  /\ requests = 0
  /\ faults = 0

NextJoins ==
  \/ JoinStep
  \/ LeaveStep
  \/ CodeChangeStep

SpecJoins == InitJoins /\ [][NextJoins]_vars

(***************************************************************************)
(* The execution engine alone, on two documents whose programs write to    *)
(* both stdout and stderr (a code_change for each was handled before).     *)
(***************************************************************************)
InitOutput ==
  /\ connected = Sessions
  /\ rooms = [d \in Docs |-> {}]
  /\ documents = [d \in Docs |-> IF d = "d1" THEN "pw" ELSE "qe"]
  /\ inbox = [s \in Sessions |-> <<>>]
  /\ lastChange = [d \in Docs |->
                     [newContent |-> documents[d], senderId |-> "u1", fileName |-> "f1"]]
  /\ cursorSent = [s \in Sessions |-> 0]
  /\ joins = [p \in {} |-> 0]
  /\ serving = TRUE
  /\ clients = [c \in {} |-> 0]
  /\ outbox = [s \in Sessions |-> <<>>]
  /\ runs = [r \in RunIds |-> NoRun]
  /\ disk = [f \in Paths |-> NoFile]
  /\ now = 0
  /\ requests = 0
  /\ faults = 0

NextOutput ==
  \/ RunCodeStep
  \/ OpenStep
  \/ StdoutStep
  \/ StderrStep
  \/ CloseStep
  \/ ErrorStep
  \/ UnlinkStep

SpecOutput == InitOutput /\ [][NextOutput]_vars

\* The event loop runs every pending callback, and every process that was
\* started gets to open its script, write its output and end.
FairOutput ==
  \A r \in RunIds :
    /\ WF_vars(python_open(r))
    /\ WF_vars(stdout_data(r))
    /\ WF_vars(stderr_data(r))
    /\ WF_vars(\E code \in ExitCodes : pythonProcess_close(r, code))
    /\ WF_vars(pythonProcess_error(r))
    /\ WF_vars(\E ok \in BOOLEAN : unlink_callback(r, ok))

SpecOutputFair == InitOutput /\ [][NextOutput]_vars /\ FairOutput

(***************************************************************************)
(* Every socket event the server handles, with a single client connected;  *)
(* the processes its run_code requests start are left running.             *)
(***************************************************************************)
InitSolo ==
  /\ connected = {"s1"}
  /\ rooms = [d \in Docs |-> {}]
  /\ documents = [d \in Docs |-> Undefined]
  /\ inbox = [s \in Sessions |-> <<>>]
  /\ lastChange = [d \in Docs |-> NoChange]
  /\ cursorSent = [s \in Sessions |-> 0]
  /\ joins = [p \in {} |-> 0]
  /\ serving = TRUE
  /\ clients = [c \in {} |-> 0]
  /\ outbox = [s \in Sessions |-> <<>>]
  /\ runs = [r \in RunIds |-> NoRun]
  /\ disk = [f \in Paths |-> NoFile]
  /\ now = 0
  /\ requests = 0
  /\ faults = 0

NextSolo ==
  \/ JoinStep
  \/ LeaveStep
  \/ CodeChangeStep
  \/ CursorStep
  \/ DisconnectStep
  \/ RunCodeStep

SpecSolo == InitSolo /\ [][NextSolo]_vars

(***************************************************************************)
(* Payloads: the clients join rooms and send code_change events whose      *)
(* payload is complete or lacks a field.                                   *)
(***************************************************************************)
NextPayload ==
  \/ JoinStep
  \/ CodeChangeStep
  \/ PartialChangeStep

SpecPayload == Init /\ [][NextPayload]_vars

(***************************************************************************)
(* The client: the EditorPage component of a browser tab. A tab holds one  *)
(* socket at a time; what it emits waits in the outbox of that socket until *)
(* the server handles it, what the server emits to the socket waits in its *)
(* inbox until the tab's listener takes it.                                *)
(***************************************************************************)
Clients == {"c1", "c2"}

\* userId of the AppContext: the account signed in on the tab
userId(c) == IF c = "c1" THEN "u1" ELSE "u2"

\* activeProjectId of the AppContext: the tabs have the same project open
activeProjectId == "d1"

\* the files of the project
FileNames == {"f1", "f2"}

\* socketRef.current && isConnected && activeProjectId && activeFileName
CanSend(c) ==
  /\ clients[c].socketRef # Undefined
  /\ clients[c].isConnected
  /\ clients[c].activeFileName # Undefined

\* socketRef.current.emit(event, ...)
ClientEmit(c, msg) ==
  [outbox EXCEPT ![clients[c].socketRef] = Append(@, msg)]

\* handleEditorChange(newValue): what it emits (setCode keeps the value
\* the editor already has; the copy saved to the external store is not kept)
handleEditorChange(c, newValue) ==
  IF CanSend(c)
    THEN ClientEmit(c, [event |-> "code_change", documentId |-> activeProjectId,
                        data |-> [newContent |-> newValue, senderId |-> userId(c),
                                  fileName |-> clients[c].activeFileName]])
    ELSE outbox

\* socketRef.current.on('connect')
on_connect(c) ==
  /\ clients[c].socketRef \in connected
  /\ ~clients[c].isConnected
  /\ clients' = [clients EXCEPT ![c].isConnected = TRUE]
  /\ outbox' = ClientEmit(c, [event |-> "join_document", documentId |-> activeProjectId])
  /\ UNCHANGED <<connected, rooms, documents, inbox, lastChange, cursorSent, joins,
                 serving, runVars>>

\* the user types in the editor: onChange calls handleEditorChange. Each tab
\* makes one local edit.
UserEdit(c, v) ==
  /\ ~clients[c].edited
  /\ v # clients[c].value
  /\ clients' = [clients EXCEPT ![c].value = v, ![c].edited = TRUE]
  /\ outbox' = handleEditorChange(c, v)
  /\ UNCHANGED <<connected, rooms, documents, inbox, lastChange, cursorSent, joins,
                 serving, runVars>>

\* socketRef.current.on('code_change'): editor.setValue(newContent) calls the
\* editor's change callback, handleEditorChange, as a local edit does
on_code_change(c) ==
  LET s == clients[c].socketRef
      data == Head(inbox[s])
      applies == /\ s # data.senderId
                 /\ data.fileName = clients[c].activeFileName
                 /\ clients[c].value # data.newContent
  IN
  /\ s # Undefined
  /\ inbox[s] # <<>>
  /\ Head(inbox[s]).event = "code_change"
  /\ inbox' = [inbox EXCEPT ![s] = Tail(@)]
  /\ clients' = IF applies THEN [clients EXCEPT ![c].value = data.newContent] ELSE clients
  /\ outbox' = IF applies THEN handleEditorChange(c, data.newContent) ELSE outbox
  /\ UNCHANGED <<connected, rooms, documents, lastChange, cursorSent, joins,
                 serving, runVars>>

\* the server takes the next event of a socket and runs its handler
ServerJoin(s) ==
  /\ outbox[s] # <<>>
  /\ Head(outbox[s]).event = "join_document"
  /\ join_document(s, Head(outbox[s]).documentId)
  /\ outbox' = [outbox EXCEPT ![s] = Tail(@)]
  /\ UNCHANGED clients

ServerCodeChange(s) ==
  /\ outbox[s] # <<>>
  /\ Head(outbox[s]).event = "code_change"
  /\ code_change(s, Head(outbox[s]).documentId, Head(outbox[s]).data)
  /\ outbox' = [outbox EXCEPT ![s] = Tail(@)]
  /\ UNCHANGED clients

\* handleRunCode, called by the Run button, which is disabled while
\* !isConnected || isRunning || !activeFileName; the requests the server
\* handles are bounded by RunIds
handleRunCode(c) ==
  /\ ~clients[c].isRunning
  /\ CanSend(c)
  /\ requests + Len(outbox[clients[c].socketRef]) + 1 \in RunIds
  /\ clients' = [clients EXCEPT ![c].isRunning = TRUE]
  /\ outbox' = ClientEmit(c, [event |-> "run_code", documentId |-> activeProjectId])
  /\ UNCHANGED <<connected, rooms, documents, inbox, lastChange, cursorSent, joins,
                 serving, runVars>>

\* socketRef.current.on('code_output')
on_code_output(c) ==
  LET s == clients[c].socketRef IN
  /\ s # Undefined
  /\ inbox[s] # <<>>
  /\ Head(inbox[s]).event = "code_output"
  /\ inbox' = [inbox EXCEPT ![s] = Tail(@)]
  /\ clients' = [clients EXCEPT ![c].isRunning = FALSE]
  /\ UNCHANGED <<connected, rooms, documents, lastChange, cursorSent, joins,
                 serving, outbox, runVars>>

\* a socket id no tab has had yet
Fresh(s) ==
  /\ s \notin connected
  /\ \A c \in DOMAIN clients : s # clients[c].socketRef /\ s \notin clients[c].closed

\* setActiveFileName(file.fileName): activeFileName is a dependency of the
\* socket effect, whose cleanup disconnects the socket and whose body opens
\* a new one and registers the listeners on it; isRunning is kept
SwitchFile(c, f, s) ==
  /\ clients[c].socketRef # Undefined
  /\ f # clients[c].activeFileName
  /\ Fresh(s)
  /\ clients' = [clients EXCEPT ![c].activeFileName = f,
                                ![c].socketRef = s,
                                ![c].isConnected = FALSE,
                                ![c].closed = @ \cup {clients[c].socketRef}]
  /\ UNCHANGED <<connected, rooms, documents, inbox, lastChange, cursorSent, joins,
                 serving, outbox, runVars>>

\* io.on('connection'): the server accepts the socket a tab opened
connection(s) ==
  /\ serving
  /\ s \notin connected
  /\ \E c \in DOMAIN clients : clients[c].socketRef = s
  /\ connected' = connected \cup {s}
  /\ UNCHANGED <<rooms, documents, inbox, lastChange, cursorSent, joins,
                 serving, clientVars, runVars>>

\* the server learns that the tab closed the socket, after the events the
\* tab had emitted on it
ClientGone(s) ==
  /\ \A c \in DOMAIN clients : clients[c].socketRef # s
  /\ outbox[s] = <<>>
  /\ disconnect(s)

ServerRunCode(s) ==
  /\ outbox[s] # <<>>
  /\ Head(outbox[s]).event = "run_code"
  /\ \E t \in Times, outcome \in Outcomes : run_code(s, Head(outbox[s]).documentId, t, outcome)
  /\ outbox' = [outbox EXCEPT ![s] = Tail(@)]
  /\ UNCHANGED clients

ConnectStep == \E c \in DOMAIN clients : on_connect(c)
UserEditStep == \E c \in DOMAIN clients, v \in {"p", "q"} : UserEdit(c, v)
ClientCodeChangeStep == \E c \in DOMAIN clients : on_code_change(c)
RunClickStep == \E c \in DOMAIN clients : handleRunCode(c)
ClientOutputStep == \E c \in DOMAIN clients : on_code_output(c)
SwitchFileStep == \E c \in DOMAIN clients, f \in FileNames, s \in Sessions : SwitchFile(c, f, s)
ConnectionStep == \E s \in Sessions : connection(s)
ClientGoneStep == \E s \in Sessions : ClientGone(s)
ServerRunCodeStep == \E s \in Sessions : ServerRunCode(s)
ServerJoinStep == \E s \in Sessions : ServerJoin(s)
ServerCodeChangeStep == \E s \in Sessions : ServerCodeChange(s)

(***************************************************************************)
(* Editing: two tabs with the same project and the same active file, their *)
(* connections open and their editors showing the same content.            *)
(***************************************************************************)
InitEdit ==
  /\ connected = Sessions
  /\ rooms = [d \in Docs |-> {}]
  /\ documents = [d \in Docs |-> Undefined]
  /\ inbox = [s \in Sessions |-> <<>>]
  /\ lastChange = [d \in Docs |-> NoChange]
  /\ cursorSent = [s \in Sessions |-> 0]
  /\ joins = [p \in {} |-> 0]
  /\ serving = TRUE
  /\ clients = [c \in Clients |->
                  [socketRef |-> IF c = "c1" THEN "s1" ELSE "s2",
                   isConnected |-> FALSE, isRunning |-> FALSE,
                   value |-> "", activeFileName |-> "f1",
                   edited |-> FALSE, closed |-> {}]]
  /\ outbox = [s \in Sessions |-> <<>>]
  /\ runs = [r \in RunIds |-> NoRun]
  /\ disk = [f \in Paths |-> NoFile]
  /\ now = 0
  /\ requests = 0
  /\ faults = 0

NextEdit ==
  \/ ConnectStep
  \/ UserEditStep
  \/ ServerJoinStep
  \/ ServerCodeChangeStep
  \/ ClientCodeChangeStep

\* Every event that was sent is handled: the server runs the handler of each
\* event it received, and a tab the listener of each event it received. The
\* user is not bound to type.
FairEdit ==
  /\ \A s \in Sessions : WF_vars(ServerJoin(s)) /\ WF_vars(ServerCodeChange(s))
  /\ \A c \in Clients : WF_vars(on_connect(c)) /\ WF_vars(on_code_change(c))

SpecEdit == InitEdit /\ [][NextEdit]_vars /\ FairEdit

(***************************************************************************)
(* Run button: one tab, connected and in the room of its project, whose    *)
(* content the server holds; the user runs the code and changes the active *)
(* file.                                                                   *)
(***************************************************************************)
RunTabs == {"c1"}

InitRunButton ==
  /\ connected = {"s1"}
  /\ rooms = [d \in Docs |-> IF d = activeProjectId THEN {"s1"} ELSE {}]
  /\ documents = [d \in Docs |-> IF d = activeProjectId THEN "pw" ELSE Undefined]
  /\ inbox = [s \in Sessions |-> <<>>]
  /\ lastChange = [d \in Docs |->
                     IF d = activeProjectId
                       THEN [newContent |-> "pw", senderId |-> "u1", fileName |-> "f1"]
                       ELSE NoChange]
  /\ cursorSent = [s \in Sessions |-> 0]
  /\ joins = [p \in {} |-> 0]
  /\ serving = TRUE
  /\ clients = [c \in RunTabs |->
                  [socketRef |-> "s1", isConnected |-> TRUE, isRunning |-> FALSE,
                   value |-> "pw", activeFileName |-> "f1",
                   edited |-> FALSE, closed |-> {}]]
  /\ outbox = [s \in Sessions |-> <<>>]
  /\ runs = [r \in RunIds |-> NoRun]
  /\ disk = [f \in Paths |-> NoFile]
  /\ now = 0
  /\ requests = 0
  /\ faults = 0

NextRunButton ==
  \/ RunClickStep
  \/ SwitchFileStep
  \/ ConnectionStep
  \/ ConnectStep
  \/ ClientGoneStep
  \/ ServerJoinStep
  \/ ServerRunCodeStep
  \/ OpenStep
  \/ StdoutStep
  \/ StderrStep
  \/ CloseStep
  \/ ErrorStep
  \/ UnlinkStep
  \/ ClientOutputStep

\* The server accepts every connection, handles every event it received and
\* learns of every closed socket; every process ends and every pending
\* callback runs; a tab runs the listener of every event it received. The
\* user is bound neither to run the code nor to change the file.
FairRunButton ==
  /\ FairOutput
  /\ \A s \in Sessions :
       /\ WF_vars(connection(s))
       /\ WF_vars(ClientGone(s))
       /\ WF_vars(ServerJoin(s))
       /\ WF_vars(ServerRunCode(s))
  /\ \A c \in RunTabs : WF_vars(on_connect(c)) /\ WF_vars(on_code_output(c))

SpecRunButton == InitRunButton /\ [][NextRunButton]_vars /\ FairRunButton

Next == NextRelay \/ NextRun

Spec == Init /\ [][Next]_vars

(***************************************************************************)
(* Properties of the relay (SpecRelay).                                    *)
(***************************************************************************)
IsEvent(m, e) == m.event = e

\* C1: when A and B are both members of room D, handling A's code_change for
\* D appends to B's stream one code_change message carrying A's newContent,
\* senderId and fileName, and appends nothing to A's own stream.
C1_CodeChangeReachesPeersNotSender ==
  [][\A d \in Docs : \A a \in rooms[d], b \in rooms[d], data \in CodeChangeData :
       code_change(a, d, data)
         => IF b = a
              THEN inbox'[a] = inbox[a]
              ELSE inbox'[b] = Append(inbox[b],
                     [event |-> "code_change", newContent |-> data.newContent,
                      senderId |-> data.senderId, fileName |-> data.fileName,
                      from |-> a])]_vars

\* A and B share room D, A's code_change for D has been handled: B holds it,
\* A holds nothing
C1_Witness ==
  \E a \in Sessions, b \in Sessions, d \in Docs :
    /\ a # b
    /\ {a, b} \subseteq rooms[d]
    /\ inbox[a] = <<>>
    /\ Len(inbox[b]) = 1
    /\ IsEvent(inbox[b][1], "code_change")
    /\ inbox[b][1].from = a
    /\ inbox[b][1].newContent = "p"
    /\ inbox[b][1].senderId = "u1"
    /\ inbox[b][1].fileName = "f1"
    /\ documents[d] = "p"

\* C8: the snapshot of every document is the newContent of the last
\* code_change handled for it (one slot per documentId, whatever the sender
\* and the fileName), and is absent when none was handled.
C8_SnapshotIsLastChange ==
  \A d \in Docs : documents[d] = lastChange[d].newContent

\* only document d was ever changed; a peer saw a change of file f1 and then
\* one of file f2, and the snapshot is the content of the second
C8_Witness ==
  \E b \in Sessions, d \in Docs :
    /\ \A e \in Docs \ {d} : lastChange[e] = NoChange
    /\ Len(inbox[b]) = 2
    /\ IsEvent(inbox[b][1], "code_change") /\ inbox[b][1].fileName = "f1"
    /\ IsEvent(inbox[b][2], "code_change") /\ inbox[b][2].fileName = "f2"
    /\ inbox[b][1].newContent # inbox[b][2].newContent
    /\ documents[d] = inbox[b][2].newContent
    /\ lastChange[d].fileName = "f2"

\* C10: in every peer's stream the cursor_update events of one sender appear
\* in the order the sender's events were handled.
C10_CursorOrderKept ==
  \A b \in Sessions : \A i \in DOMAIN inbox[b], j \in DOMAIN inbox[b] :
    ( /\ i < j
      /\ IsEvent(inbox[b][i], "cursor_update")
      /\ IsEvent(inbox[b][j], "cursor_update")
      /\ inbox[b][i].from = inbox[b][j].from )
    => inbox[b][i].seq < inbox[b][j].seq

\* a peer holds two different cursor_update events of the same sender
C10_Witness ==
  \E b \in Sessions :
    /\ Len(inbox[b]) = 2
    /\ IsEvent(inbox[b][1], "cursor_update")
    /\ IsEvent(inbox[b][2], "cursor_update")
    /\ inbox[b][1].from = inbox[b][2].from
    /\ inbox[b][1].position # inbox[b][2].position
    /\ inbox[b][1].seq = 1 /\ inbox[b][2].seq = 2

\* C12: leave_document takes the socket out of room D and out of no other
\* room, and changes no room when the socket is not a member of D; a
\* code_change or cursor_update for D changes the stream of no socket that is
\* not a member of D.
C12_LeaveRemovesOnly ==
  [][\A d \in Docs, s \in Sessions :
       /\ leave_document(s, d)
            => /\ rooms'[d] = rooms[d] \ {s}
               /\ \A e \in Docs \ {d} : rooms'[e] = rooms[e]
               /\ (s \notin rooms[d] => rooms' = rooms)
       /\ ( /\ inbox'[s] # inbox[s]
            /\ \/ \E a \in Sessions, data \in CodeChangeData : code_change(a, d, data)
               \/ \E a \in Sessions, data \in CursorData : cursor_update(a, d, data) )
            => s \in rooms[d]]_vars

\* s is connected and in no room any more; it holds the first change of
\* document d, the only document ever changed, and not the last one, which
\* was handled with a in the room
C12_Witness ==
  \E a \in Sessions, s \in Sessions, d \in Docs :
    /\ a # s
    /\ s \in connected
    /\ \A e \in Docs : s \notin rooms[e]
    /\ a \in rooms[d]
    /\ \A e \in Docs \ {d} : lastChange[e] = NoChange
    /\ Len(inbox[s]) = 1
    /\ IsEvent(inbox[s][1], "code_change")
    /\ inbox[s][1].from = a
    /\ inbox[s][1].newContent = "p"
    /\ documents[d] = "q"
    /\ inbox[a] = <<>>

\* C24: join_document and leave_document emit no message to any socket and
\* leave every snapshot as it is (a joiner is not sent the snapshot of the
\* room): a step that changes a stream or a snapshot is neither of them.
C24_JoinLeaveSilent ==
  [][(inbox' # inbox \/ documents' # documents)
       => \A s \in Sessions, d \in Docs :
            ~join_document(s, d) /\ ~leave_document(s, d)]_vars

\* both sockets are in the room of d, the server holds a snapshot of d, and
\* no socket was ever sent anything: the second of them joined after the
\* last code_change for d
C24_Witness ==
  \E d \in Docs :
    /\ rooms[d] = Sessions
    /\ connected = Sessions
    /\ documents[d] = "p"
    /\ lastChange[d].newContent = "p"
    /\ \A s \in Sessions : inbox[s] = <<>>

\* C25: a socket becomes a member of room D only by its own join_document
\* for D, and a code_change or cursor_update for D appends one message to
\* the streams of sockets that are members of D when it is handled and to no
\* other stream.
C25_DeliveredToMembersOnly ==
  [][/\ \A d \in Docs : \A b \in rooms'[d] \ rooms[d] : join_document(b, d)
     /\ inbox' # inbox
          => \A d \in Docs, a \in Sessions :
               ( \/ \E data \in CodeChangeData : code_change(a, d, data)
                 \/ \E data \in CursorData : cursor_update(a, d, data) )
                 => \A b \in Sessions :
                      IF b \in rooms[d] \ {a}
                        THEN Len(inbox'[b]) = Len(inbox[b]) + 1
                        ELSE inbox'[b] = inbox[b]]_vars

\* a is alone in the room of d and b alone in the room of e; a code_change
\* for d was handled, none for e, and b holds nothing
C25_Witness ==
  \E a \in Sessions, b \in Sessions, d \in Docs, e \in Docs :
    /\ a # b /\ d # e
    /\ connected = Sessions
    /\ rooms[d] = {a} /\ rooms[e] = {b}
    /\ documents[d] = "q" /\ lastChange[d].newContent = "q"
    /\ documents[e] = Undefined
    /\ inbox[a] = <<>> /\ inbox[b] = <<>>

\* C29 (as claimed): a code_change for D from a socket that is not a member
\* of D leaves the snapshot of D and every stream as they are.
C29_OnlyMembersChange ==
  [][\A d \in Docs : \A a \in Sessions \ rooms[d], data \in CodeChangeData :
       code_change(a, d, data)
         => documents'[d] = documents[d] /\ inbox' = inbox]_vars

\* C29 (amended): a code_change for D from any connected socket, a socket
\* that never joined D included, sets the snapshot of D to its newContent and
\* appends its message to the stream of every member of D.
C29_AnySessionChanges ==
  [][(lastChange' # lastChange \/ inbox' # inbox \/ documents' # documents)
       => \A d \in Docs : \A a \in Sessions \ rooms[d], data \in CodeChangeData :
            code_change(a, d, data)
              => /\ documents'[d] = data.newContent
                 /\ \A b \in Sessions :
                      inbox'[b] = IF b \in rooms[d]
                                    THEN Append(inbox[b], CodeChangeMsg(a, d, data))
                                    ELSE inbox[b]]_vars

\* a is in no room; b, the only member of the room of d, holds a's change of
\* d, which is the snapshot of d
C29_Witness ==
  \E a \in Sessions, b \in Sessions, d \in Docs :
    /\ a # b
    /\ connected = Sessions
    /\ \A e \in Docs : a \notin rooms[e]
    /\ rooms[d] = {b}
    /\ Len(inbox[b]) = 1
    /\ IsEvent(inbox[b][1], "code_change")
    /\ inbox[b][1].from = a
    /\ inbox[b][1].newContent = "p"
    /\ documents[d] = "p"
    /\ inbox[a] = <<>>

\* C13: a disconnect takes the socket out of every room and no other socket
\* out of any room; a socket whose connection is closed is in no room, and no
\* event handled afterwards changes its stream.
C13_DisconnectedGetsNothing ==
  [][\A s \in Sessions :
       /\ s \notin connected' => \A d \in Docs : s \notin rooms'[d]
       /\ s \notin connected => inbox'[s] = inbox[s]
       /\ disconnect(s) => \A d \in Docs : rooms'[d] = rooms[d] \ {s}]_vars

\* s has disconnected from room d, where a stays; s holds the first change
\* of d, the only document ever changed, and not the last one
C13_Witness ==
  \E a \in Sessions, s \in Sessions, d \in Docs :
    /\ a # s
    /\ s \notin connected
    /\ a \in rooms[d]
    /\ \A e \in Docs \ {d} : lastChange[e] = NoChange
    /\ Len(inbox[s]) = 1
    /\ IsEvent(inbox[s][1], "code_change")
    /\ inbox[s][1].from = a
    /\ inbox[s][1].newContent = "p"
    /\ documents[d] = "q"
    /\ inbox[a] = <<>>

\* C19: handling a cursor_update leaves every snapshot, every room and the
\* set of connections as they were; it appends one cursor_update message
\* {userId, position, selection, fileName} to the stream of each other member
\* of the room and changes no other stream.  (A cursor_update that is relayed
\* to somebody advances the sender's cursorSent; one that is relayed to nobody
\* changes nothing at all.)
C19_CursorUpdateFrame ==
  [][\A a \in Sessions :
       cursorSent'[a] # cursorSent[a]
       => \A d \in Docs, data \in CursorData :
       cursor_update(a, d, data)
         => /\ documents' = documents
            /\ rooms' = rooms
            /\ connected' = connected
            /\ \A b \in Sessions :
                 inbox'[b] = IF b \in rooms[d] /\ b # a /\ b \in connected
                               THEN Append(inbox[b],
                                      [event |-> "cursor_update", userId |-> data.userId,
                                       position |-> data.position,
                                       selection |-> data.selection,
                                       fileName |-> data.fileName,
                                       from |-> a, seq |-> cursorSent[a] + 1])
                               ELSE inbox[b]]_vars

\* a and b share room d; a's cursor_update is in b's stream and not in a's,
\* and the server holds no snapshot
C19_Witness ==
  \E a \in Sessions, b \in Sessions, d \in Docs :
    /\ a # b
    /\ rooms[d] = {a, b}
    /\ inbox[a] = <<>>
    /\ Len(inbox[b]) = 1
    /\ IsEvent(inbox[b][1], "cursor_update")
    /\ inbox[b][1].from = a
    /\ inbox[b][1].userId = "u1" /\ inbox[b][1].position = "pos1"
    /\ inbox[b][1].selection = "sel1" /\ inbox[b][1].fileName = "f1"
    /\ \A e \in Docs : documents[e] = Undefined

\* C21: a snapshot that exists is there in every later state, and the
\* snapshot of a document changes only in a step that handles a code_change
\* for that document: no join_document, leave_document, cursor_update,
\* run_code or disconnect removes or alters it.
C21_SnapshotPersists ==
  [][\A d \in Docs :
       documents'[d] # documents[d]
         => /\ documents'[d] # Undefined
            /\ \E s \in Sessions, data \in CodeChangeData : code_change(s, d, data)]_vars

\* the client changed document d, asked to run it and the other document
\* (which has no snapshot), and disconnected: the snapshot of d is still the
\* one it set, the other document still has none
C21_Witness ==
  \E d \in Docs :
    /\ connected = {}
    /\ documents[d] = "p"
    /\ lastChange[d].newContent = "p"
    /\ \A e \in Docs \ {d} : documents[e] = Undefined
    /\ requests = 2
    /\ \E r \in RunIds : runs[r].phase = "spawned" /\ runs[r].documentId = d
    /\ Len(inbox["s1"]) = 1
    /\ inbox["s1"][1].via = "nocode"
    /\ inbox["s1"][1].doc # d

\* C11: join_document is idempotent: handling it for a socket that is already
\* a member of room D leaves every room as it was, and a code_change for D
\* handled after the socket joined D twice appends exactly one message to that
\* socket's stream.
C11_JoinIdempotent ==
  [][\A d \in Docs : \A b \in rooms[d] :
       /\ join_document(b, d) => rooms' = rooms
       /\ joins[<<b, d>>] = 2
            => \A a \in Sessions \ {b}, data \in CodeChangeData :
                 code_change(a, d, data)
                   => /\ Len(inbox'[b]) = Len(inbox[b]) + 1
                      /\ SubSeq(inbox'[b], 1, Len(inbox[b])) = inbox[b]]_vars

\* b joined room d twice without leaving in between and is a member of d
\* only; the one code_change handled, sent by a to d, is in b's stream once
C11_Witness ==
  \E a \in Sessions, b \in Sessions, d \in Docs :
    /\ a # b
    /\ joins[<<b, d>>] = 2
    /\ \A e \in Docs : b \in rooms[e] <=> e = d
    /\ \A e \in Docs \ {d} : lastChange[e] = NoChange
    /\ lastChange[d] # NoChange
    /\ Len(inbox[b]) = 1
    /\ IsEvent(inbox[b][1], "code_change")
    /\ inbox[b][1].from = a
    /\ inbox[a] = <<>>

(***************************************************************************)
(* Properties of the execution engine (SpecExec, SpecRun).                 *)
(***************************************************************************)
\* the code_output messages a socket holds
Outputs(s) == {i \in DOMAIN inbox[s] : IsEvent(inbox[s][i], "code_output")}

\* a scratch file written by request r is on disk
FileOf(r) == \E f \in Paths : disk[f].owner = r

\* the last message of a socket's stream
LastMsg(box) == box[Len(box)]

C15_WriteFailureAborts ==
  [][/\ \A s \in Sessions, d \in Docs, t \in Times :
          run_code(s, d, t, "writefail")
            => /\ Len(inbox'[s]) = Len(inbox[s]) + 1
               /\ LastMsg(inbox'[s]).run = requests'
               /\ LastMsg(inbox'[s]).error = TRUE
               /\ LastMsg(inbox'[s]).output = WriteErrorMsg
               /\ runs'[requests'].phase = "aborted"
     /\ \A r \in RunIds : runs[r].phase = "aborted" => runs'[r] = runs[r]]_vars

\* the write of the first request failed: the requester holds the error
\* reply, no file was written, and the second request has run to its end
C15_Witness ==
  \E s \in Sessions :
    /\ requests = 2
    /\ runs[1].phase = "aborted"
    /\ runs[2].phase = "done"
    /\ \A f \in Paths : disk[f] = NoFile
    /\ Len(inbox[s]) >= 1
    /\ inbox[s][1].run = 1
    /\ inbox[s][1].via = "catch"
    /\ inbox[s][1].error = TRUE
    /\ inbox[s][1].output = WriteErrorMsg

\* C16: the 'close' handler emits its reply while the unlink it called is
\* still pending, and the unlink callback, whether the deletion succeeded or
\* failed, changes no stream: the reply is the same in both cases.
C16_UnlinkOutcomeNotSurfaced ==
  [][\A r \in RunIds :
       /\ \A ok \in BOOLEAN :
            unlink_callback(r, ok) => (inbox' = inbox /\ runs[r].replies >= 1)
       /\ \A code \in ExitCodes :
            pythonProcess_close(r, code)
              => /\ runs'[r].phase = "closed"
                 /\ runs'[r].unlinks >= 1
                 /\ runs'[r].replies = runs[r].replies + 1]_vars

\* the one run exited 0 and the unlink of its scratch file failed: the file
\* is still there and the requester holds the ordinary reply, nothing else
C16_Witness ==
  \E s \in Sessions :
    /\ requests = 1
    /\ runs[1].phase = "done"
    /\ runs[1].failed
    /\ FileOf(1)
    /\ Len(inbox[s]) = 1
    /\ inbox[s][1].via = "close"
    /\ inbox[s][1].code = "0"
    /\ inbox[s][1].error = FALSE
    /\ inbox[s][1].output.kind = "text"
    /\ Len(inbox[s][1].output.chunks) = 2
    /\ \A t \in Sessions \ {s} : inbox[t] = <<>>

\* the first n chunks process r writes to a stream
Written(r, chunks, n) == [i \in 1 .. n |-> [pid |-> r, data |-> chunks[i]]]

\* C17: at every 'close' the reply's output is, on exit status 0, the stdout
\* chunks of the process in the order it wrote them and nothing of its stderr;
\* on any other status the stderr chunks in the order written when there are
\* any, and the synthesized non-zero-exit message otherwise, and nothing of
\* its stdout.  A process that ends by itself has written all its chunks.
C17_OutputIsConcatenation ==
  [][\A r \in RunIds, code \in ExitCodes :
       pythonProcess_close(r, code)
         => LET m == LastMsg(inbox'[runs[r].socket])
                script == Script(runs[r].executed)
                nout == IF code = "null" THEN Len(runs[r].output) ELSE Len(script.stdout)
                nerr == IF code = "null" THEN Len(runs[r].errorOutput) ELSE Len(script.stderr)
            IN  /\ Len(inbox'[runs[r].socket]) = Len(inbox[runs[r].socket]) + 1
                /\ m.run = r
                /\ IF code = "0"
                     THEN m.output = Text(Written(r, script.stdout, nout))
                     ELSE IF runs[r].phase = "running" /\ nerr > 0
                       THEN m.output = Text(Written(r, script.stderr, nerr))
                       ELSE m.output = NonZeroMsg(code)]_vars

\* s asked for both documents: it holds the two stdout chunks of the program
\* that exited 0 (its stderr chunk is not there) and then the two stderr
\* chunks of the program that exited 1 (its stdout chunk is not there)
C17_Witness ==
  \E s \in Sessions :
    /\ Len(inbox[s]) = 2
    /\ inbox[s][1].via = "close" /\ inbox[s][1].code = "0"
    /\ inbox[s][1].output = Text(<<[pid |-> inbox[s][1].run, data |-> "x"],
                                   [pid |-> inbox[s][1].run, data |-> "y"]>>)
    /\ inbox[s][2].via = "close" /\ inbox[s][2].code = "1"
    /\ inbox[s][2].output = Text(<<[pid |-> inbox[s][2].run, data |-> "e"],
                                   [pid |-> inbox[s][2].run, data |-> "f"]>>)

\* C18 (as claimed): on every terminal path the handler has initiated the
\* removal of the scratch file (called fs.unlink) when it emits the
\* code_output reply.
C18_UnlinkBeforeReply ==
  \A s \in Sessions : \A i \in Outputs(s) :
    inbox[s][i].via \in {"close", "error"} => inbox[s][i].unlinkCalled

\* C20: a disconnect changes no run and no scratch file: the process of a
\* requester that has gone keeps running; when it closes, fs.unlink is still
\* called for its scratch file.
C20_DisconnectKeepsRun ==
  [][/\ \A s \in Sessions : disconnect(s) => (runs' = runs /\ disk' = disk)
     /\ \A r \in RunIds :
          ( /\ runs[r].phase \in {"spawned", "running"}
            /\ runs[r].socket \notin connected
            /\ \E code \in ExitCodes : pythonProcess_close(r, code) )
          => /\ runs'[r].phase = "closed"
             /\ runs'[r].tempFileName = runs[r].tempFileName
             /\ runs'[r].unlinks = runs[r].unlinks + 1]_vars

\* the requester of the only run disconnected while the run was in flight:
\* no reply was delivered, no fault occurred, the process ended by itself,
\* and its scratch file has been removed
C20_Witness ==
  \E s \in Sessions :
    /\ requests = 1
    /\ s \notin connected
    /\ runs[1].phase = "done"
    /\ ~runs[1].failed
    /\ runs[1].replies = 1
    /\ faults = 0
    /\ \A f \in Paths : disk[f] = NoFile
    /\ \A t \in Sessions : inbox[t] = <<>>

\* C22: whatever runs are in flight, a run_code of a connected socket for a
\* document with a snapshot can be handled at once and, the environment
\* permitting the write and the spawn, starts the process of the request in
\* that very step, leaving the other runs as they are.
C22_RunStartsAtOnce ==
  \A s \in connected, d \in Docs :
    (requests + 1 \in RunIds /\ ~Falsy(documents[d]))
      => ENABLED ( /\ run_code(s, d, now, "ok")
                   /\ runs'[requests + 1].phase = "spawned"
                   /\ runs'[requests + 1].socket = s
                   /\ runs'[requests + 1].documentId = d
                   /\ \A r \in RunIds \ {requests + 1} : runs'[r] = runs[r] )

\* two runs asked by the same socket for the same document have their
\* process at the same time
C22_Witness ==
  /\ runs[1].phase = "running"
  /\ runs[2].phase \in {"spawned", "running"}
  /\ runs[1].socket = runs[2].socket
  /\ runs[1].documentId = runs[2].documentId

\* C23: under fairness, every run_code request that has been handled leads
\* to a code_output for that request in the requester's stream (the
\* requesters stay connected in this specification).
C23_ReplyEventually ==
  \A r \in RunIds :
    (requests >= r) ~> (\E s \in Sessions : \E i \in Outputs(s) :
                          inbox[s][i].run = r /\ inbox[s][i].socket = s)

\* the first request failed to start its interpreter, the process of the
\* second exited with 1; the requesters hold a reply for each
C23_Witness ==
  /\ \E s \in Sessions : \E i \in Outputs(s) :
       inbox[s][i].run = 1 /\ inbox[s][i].via = "error"
  /\ \E s \in Sessions : \E i \in Outputs(s) :
       inbox[s][i].run = 2 /\ inbox[s][i].via = "close" /\ inbox[s][i].code = "1"
  /\ connected = Sessions

\* C26 (as claimed): two runs whose processes have not ended yet never have
\* the same scratch file path.
C26_DistinctScratchPaths ==
  \A r1 \in RunIds, r2 \in RunIds :
    ( /\ r1 # r2
      /\ runs[r1].phase \in {"spawnfail", "spawned", "running", "errored"}
      /\ runs[r2].phase \in {"spawnfail", "spawned", "running", "errored"} )
      => runs[r1].tempFileName # runs[r2].tempFileName

\* C27 (as claimed): a request that ended in the catch block of its run_code
\* handler has left no scratch file on disk.
C27_NoScratchAfterCatch ==
  \A r \in RunIds : runs[r].phase = "aborted" => ~FileOf(r)

\* C28 (as claimed): once a code_change for D has been handled, whatever its
\* newContent, a run_code for D is not answered with the 'No code found'
\* reply: it goes on to write the scratch file of a run.
C28_SentinelOnlyWithoutChange ==
  [][\A s \in Sessions, d \in Docs :
       (lastChange[d] # NoChange /\ \E t \in Times, o \in Outcomes : run_code(s, d, t, o))
         => /\ runs'[requests + 1] # NoRun
            /\ \/ inbox'[s] = inbox[s]
               \/ LastMsg(inbox'[s]).output # NoCodeMsg]_vars

\* C30 (as claimed): whatever fields the payload of a code_change lacks, the
\* handler completes: no uncaught exception has ended the server process,
\* which keeps the connections of the other sessions.
C30_HandlerNeverThrows == serving

\* no code_change is on its way to the server or to a tab
NoChangeInFlight ==
  \A s \in Sessions :
    /\ \A i \in DOMAIN outbox[s] : outbox[s][i].event # "code_change"
    /\ \A i \in DOMAIN inbox[s] : ~IsEvent(inbox[s][i], "code_change")

\* C31 (as claimed): after the tabs have made their edits the exchange of
\* code_change messages stops: from some state on none is in flight.
C31_ExchangeStops == <>[]NoChangeInFlight

\* C32 (as claimed): whenever a tab has set isRunning, isRunning is false
\* again later, its socket having been replaced in between or not.
C32_RunButtonReturns ==
  \A c \in RunTabs : clients[c].isRunning ~> ~clients[c].isRunning

C3_ExactlyOneReply ==
  \A r \in RunIds : runs[r].phase \in {"closed", "done", "aborted"} => runs[r].replies = 1

C5_ErrorIffNonZeroExit ==
  \A s \in Sessions : \A i \in Outputs(s) :
    inbox[s][i].via = "close" => (inbox[s][i].error = FALSE <=> inbox[s][i].code = "0")

\* a socket holds the reply of a run that exited 0 and of a run that a
\* signal ended
C5_Witness ==
  \E s \in Sessions : \E i \in Outputs(s), j \in Outputs(s) :
    /\ inbox[s][i].via = "close" /\ inbox[s][i].code = "0" /\ inbox[s][i].error = FALSE
    /\ inbox[s][j].via = "close" /\ inbox[s][j].code = "null" /\ inbox[s][j].error = TRUE

\* C7: a socket only holds replies of its own requests, and the text of a
\* reply was written by the process of that very request.
C7_NoCrossDelivery ==
  \A s \in Sessions : \A i \in Outputs(s) :
    /\ inbox[s][i].socket = s
    /\ inbox[s][i].output.kind = "text"
          => \A k \in DOMAIN inbox[s][i].output.chunks :
               inbox[s][i].output.chunks[k].pid = inbox[s][i].run

\* the run X asked first for one document is still running and has produced
\* output; the run Y asked later for another document has closed: Y holds its
\* text, X holds nothing
C7_Witness ==
  \E x \in Sessions, y \in Sessions :
    /\ x # y
    /\ runs[1].phase = "running" /\ runs[1].socket = x /\ runs[1].output # <<>>
    /\ inbox[x] = <<>>
    /\ Len(inbox[y]) = 1
    /\ IsEvent(inbox[y][1], "code_output")
    /\ inbox[y][1].run = 2 /\ inbox[y][1].via = "close"
    /\ inbox[y][1].doc # runs[1].documentId
    /\ inbox[y][1].output.kind = "text" /\ inbox[y][1].output.chunks # <<>>

\* C6: a run_code for a document no code_change was ever handled for appends
\* the 'No code found' reply with error false to the requester's stream,
\* writes no scratch file and creates no run.
C6_NoSnapshotNoRun ==
  [][\A s \in Sessions, d \in Docs :
       (lastChange[d] = NoChange /\ \E t \in Times, o \in Outcomes : run_code(s, d, t, o))
         => /\ Len(inbox'[s]) = Len(inbox[s]) + 1
            /\ SubSeq(inbox'[s], 1, Len(inbox[s])) = inbox[s]
            /\ IsEvent(inbox'[s][Len(inbox'[s])], "code_output")
            /\ inbox'[s][Len(inbox'[s])].output = NoCodeMsg
            /\ inbox'[s][Len(inbox'[s])].error = FALSE
            /\ disk' = disk
            /\ runs' = runs]_vars

\* no code_change was ever handled, a run_code was: the requester holds the
\* sentinel, the disk is empty, no run exists
C6_Witness ==
  \E s \in Sessions :
    /\ \A d \in Docs : lastChange[d] = NoChange
    /\ Len(inbox[s]) = 1
    /\ IsEvent(inbox[s][1], "code_output")
    /\ inbox[s][1].output = NoCodeMsg /\ inbox[s][1].error = FALSE
    /\ requests = 1
    /\ \A f \in Paths : disk[f] = NoFile
    /\ \A r \in RunIds : runs[r] = NoRun

\* C9 (as claimed): what the interpreter of a run executes is the snapshot
\* its run_code handler read.
C9_ExecutesTriggerSnapshot ==
  \A r \in RunIds : runs[r].phase = "running" => runs[r].executed = runs[r].codeToExecute
====
